---- MODULE Spec2Model ----
(***************************************************************************)
(* Model of app.py: the extraction engine extract_product_info(url) and    *)
(* the GET /extract route api_extract_product().                           *)
(*                                                                         *)
(* Representation.                                                         *)
(*   - A Python str is a sequence of one-character strings, except in raw  *)
(*     response text, where a token may also be a whole word ("price").    *)
(*   - A URL string is represented by its urlsplit components              *)
(*     [scheme, netloc, path, abs]: path is the sequence of segments       *)
(*     between slashes and abs says whether the path starts with "/".      *)
(*   - Python None is the record None; a value v that may be None is       *)
(*     carried as Some(v).                                                 *)
(*   - The fetcher (requests) and the markup parser (BeautifulSoup) are    *)
(*     external: a fetch either raises or yields a page, and a page is the *)
(*     record of what each soup.find / soup.find_all of the code returns.  *)
(***************************************************************************)
EXTENDS Integers, Sequences, FiniteSets, TLC

VARIABLES
    pc,            \* the position in api_extract_product / extract_product_info
    url,           \* request.args.get('url')
    response,      \* the response of requests.get
    soup,          \* the parsed tree
    html_text,     \* response.text
    product_info,  \* the record under construction
    exc,           \* the exception raised inside the try, "" if none
    ret,           \* what extract_product_info returned
    http_response, \* what the route returned
    calls,         \* history: calls of extract_product_info
    ran,           \* history: the resolvers that have run
    blockIdx,      \* the loop index over json_ld_scripts
    blocksSeen,    \* history: the JSON-LD blocks evaluated, in order
    methodsTried,  \* history: the price methods attempted, in order
    selIdx,        \* the loop index over price_selectors
    selSeen        \* history: the found selector elements whose text was read

vars == <<pc, url, response, soup, html_text, product_info, exc, ret, http_response,
          calls, ran, blockIdx, blocksSeen, methodsTried, selIdx, selSeen>>

-----------------------------------------------------------------------------
(* Bounds of the model. *)

\* longest list of <img> elements on a page
MaxImgs == 2
\* longest list of JSON-LD script blocks on a page
MaxScripts == 2
\* how far past the truncation limit description texts go
MaxOver == 2

(* Program constants. *)

\* schema_desc.get_text().strip()[:500]
DescLimit == 500

-----------------------------------------------------------------------------
(* Python values. *)

None == [none |-> TRUE]

Some(v) == [val |-> v]

\* truthiness of an optional str: neither None nor ""
Truthy(x) == x # None /\ x.val # <<>>

WS == {" ", "\n", "\t"}

RECURSIVE LStrip(_)
LStrip(s) == IF s # <<>> /\ Head(s) \in WS THEN LStrip(Tail(s)) ELSE s

RECURSIVE RStrip(_)
RStrip(s) == IF s # <<>> /\ s[Len(s)] \in WS THEN RStrip(SubSeq(s, 1, Len(s) - 1)) ELSE s

\* str.strip()
Strip(s) == RStrip(LStrip(s))

\* s[:n]
Prefix(s, n) == SubSeq(s, 1, IF Len(s) < n THEN Len(s) ELSE n)

\* a str of n copies of the character c
Rep(n, c) == [i \in 1..n |-> c]

-----------------------------------------------------------------------------
(* URLs and urllib.parse.urljoin. *)

Url(scheme, netloc, path, abs) ==
    [scheme |-> scheme, netloc |-> netloc, path |-> path, abs |-> abs]

\* the empty string, seen as a URL reference
EmptyRef == Url("", "", <<>>, FALSE)

\* a URL str is truthy unless it is ""
UrlTruthy(x) == x # None /\ x.val # EmptyRef

\* a URL with a scheme and a host
IsAbsolute(u) == u.scheme # "" /\ u.netloc # ""

\* urlsplit raises ValueError("Invalid IPv6 URL") on a netloc with an
\* unbalanced bracket; "[bad" is the one such netloc of the model
BadNetloc(n) == n = "[bad"

\* the loop of urljoin that resolves "." and ".." segments
RECURSIVE RemoveDots(_, _)
RemoveDots(segments, resolved) ==
    IF segments = <<>> THEN resolved
    ELSE LET seg == Head(segments) IN
         IF seg = ".."
         THEN RemoveDots(Tail(segments),
                         IF resolved = <<>> THEN resolved
                         ELSE SubSeq(resolved, 1, Len(resolved) - 1))
         ELSE IF seg = "."
         THEN RemoveDots(Tail(segments), resolved)
         ELSE RemoveDots(Tail(segments), Append(resolved, seg))

\* the path of urljoin's result for a reference with a non-empty path
JoinPath(bpath, ref) ==
    LET base_parts == IF bpath = <<>> THEN <<>> ELSE SubSeq(bpath, 1, Len(bpath) - 1)
        segments   == IF ref.abs THEN ref.path ELSE base_parts \o ref.path
        resolved   == RemoveDots(segments, <<>>)
    IN  IF segments[Len(segments)] \in {".", ".."} THEN Append(resolved, "") ELSE resolved

\* urljoin(base, ref) for a base with an http(s) scheme; the caller has
\* checked that urlsplit(ref) does not raise
urljoin(base, ref) ==
    IF ref = EmptyRef THEN base
    ELSE IF ref.scheme # "" /\ ref.scheme # base.scheme THEN ref
    ELSE IF ref.netloc # "" THEN Url(base.scheme, ref.netloc, ref.path, ref.abs)
    ELSE IF ref.path = <<>> THEN Url(base.scheme, base.netloc, base.path, base.abs)
    ELSE Url(base.scheme, base.netloc, JoinPath(base.path, ref), TRUE)

\* x in src, for the literals the image filter looks for: the segments of the
\* model that contain the literal (the match is case-sensitive)
Occurs(x, tok) ==
    \/ x = "icon"   /\ tok \in {"icon.png", "favicon.ico"}
    \/ x = "logo"   /\ tok \in {"logo.svg"}
    \/ x = "sprite" /\ tok \in {"sprite.png"}

\* any(x in src for x in ['icon', 'logo', 'sprite'])
IsSmallImage(src) ==
    \E x \in {"icon", "logo", "sprite"} :
        \/ Occurs(x, src.netloc)
        \/ \E i \in 1..Len(src.path) : Occurs(x, src.path[i])

-----------------------------------------------------------------------------
\* Regular expressions of the price resolver, over token sequences.  Every
\* pattern of the code is a sequence of single-token classes, each taken
\* once, optionally or repeatedly; adjacent optional classes are disjoint,
\* so greedy matching without backtracking is what re does.

One(set)  == [q |-> "one",  set |-> set]
Opt(set)  == [q |-> "opt",  set |-> set]
Star(set) == [q |-> "star", set |-> set]

Digit == {"0", "1", "2", "3", "4", "5", "6", "7", "8", "9"}
Q == "\""

\* the position after the match of elements k.. of pat at pos, or -1
RECURSIVE MatchAt(_, _, _, _)
MatchAt(pat, text, pos, k) ==
    IF pos = -1 \/ k > Len(pat) THEN pos
    ELSE LET e   == pat[k]
             has == pos <= Len(text) /\ text[pos] \in e.set
         IN  IF e.q = "one"
             THEN IF has THEN MatchAt(pat, text, pos + 1, k + 1) ELSE -1
             ELSE IF e.q = "opt"
             THEN MatchAt(pat, text, IF has THEN pos + 1 ELSE pos, k + 1)
             ELSE IF has THEN MatchAt(pat, text, pos + 1, k)
                  ELSE MatchAt(pat, text, pos, k + 1)

\* a pattern with one capture group: the elements before, in and after it
Pattern(pre, grp, post) == [pre |-> pre, grp |-> grp, post |-> post]

\* where the pattern matches when anchored at position i
MatchFrom(pat, text, i) ==
    LET p1 == MatchAt(pat.pre, text, i, 1)
        p2 == MatchAt(pat.grp, text, p1, 1)
        p3 == MatchAt(pat.post, text, p2, 1)
    IN  [ok |-> p3 # -1, gs |-> p1, ge |-> p2, e |-> p3]

\* re.search(pattern, text): the leftmost match, as None or
\* Some([group0, group1])
re_search(pat, text) ==
    LET starts == {i \in 1..Len(text) : MatchFrom(pat, text, i).ok}
    IN  IF starts = {} THEN None
        ELSE LET i == CHOOSE j \in starts : \A k \in starts : j <= k
                 m == MatchFrom(pat, text, i)
             IN  Some([group0 |-> SubSeq(text, i, m.e - 1),
                       group1 |-> SubSeq(text, m.gs, m.ge - 1)])

\* (\d+\.?\d*)
Number == <<One(Digit), Star(Digit), Opt({"."}), Star(Digit)>>

\* a word of the raw text that ends with the letters price
EndsWithPrice == {"price", "sale_price"}

\* price_patterns of Method 3
price_patterns ==
    << Pattern(<<One({Q}), One({"price"}), One({Q}), One({":"}), Star(WS), One({"{"}),
                 Star(WS), One({Q}), One({"current"}), One({Q}), One({":"}), Star(WS)>>,
               Number, <<>>),
       Pattern(<<One({Q}), One({"currentPrice"}), One({Q}), One({":"}), Star(WS)>>,
               Number, <<>>),
       Pattern(<<One({Q}), One({"price"}), One({Q}), One({":"}), Star(WS)>>,
               Number, <<>>),
       Pattern(<<One(EndsWithPrice), One({Q}), One({":"}), Star(WS), Opt({Q}), Opt({"$"})>>,
               Number, <<Opt({Q})>>) >>

\* [\$€£]?\s*(\d+[,.]?\d*\.?\d*) of Method 4
selector_pattern ==
    Pattern(<<Opt({"$", "EUR", "GBP"}), Star(WS)>>,
            <<One(Digit), Star(Digit), Opt({",", "."}), Star(Digit), Opt({"."}), Star(Digit)>>,
            <<>>)

\* the currency symbols a price string may begin with ("EUR" for the euro
\* sign and "GBP" for the pound sign, as single tokens)
CurrencySymbol == {"$", "EUR", "GBP"}

-----------------------------------------------------------------------------
(* JSON values and the inspection of one JSON-LD block (Method 1). *)

JNum(s) == [t |-> "num", s |-> s]
JStr(s) == [t |-> "str", s |-> s]
JNull   == [t |-> "null"]
JObj(m) == [t |-> "obj", m |-> m]
JArr(a) == [t |-> "arr", a |-> a]

\* what a <script> holds: script.string is None, text json.loads rejects,
\* or text json.loads parses to v
NoString   == [t |-> "nostring"]
Malformed  == [t |-> "malformed"]
JsonText(v) == [t |-> "json", v |-> v]

Chars(key) ==
    IF key = "price" THEN <<"p", "r", "i", "c", "e">>
    ELSE <<"o", "f", "f", "e", "r", "s">>

\* key in x: "yes", "no", or "raise" (TypeError: not iterable)
Contains(x, key) ==
    IF x.t = "obj" THEN (IF key \in DOMAIN x.m THEN "yes" ELSE "no")
    ELSE IF x.t = "str"
    THEN (IF \E i \in 1..Len(x.s) :
                i + Len(Chars(key)) - 1 <= Len(x.s)
                /\ SubSeq(x.s, i, i + Len(Chars(key)) - 1) = Chars(key)
          THEN "yes" ELSE "no")
    ELSE IF x.t = "arr"
    THEN (IF \E i \in 1..Len(x.a) : x.a[i] = JStr(Chars(key)) THEN "yes" ELSE "no")
    ELSE "raise"

\* x[key] raises unless x is a dict that has the key
CanIndex(x, key) == x.t = "obj" /\ key \in DOMAIN x.m

\* str(v), as the f-string formats it
Str(v) ==
    IF v.t \in {"num", "str"} THEN v.s
    ELSE IF v.t = "null" THEN <<"N", "o", "n", "e">>
    ELSE IF v.t = "obj" THEN <<"{", "}">>
    ELSE <<"[", "]">>

Found(price) == [out |-> "price", price |-> price]
Nothing      == [out |-> "none"]
Raise        == [out |-> "raise"]

\* f"${v}"
Dollar(s) == <<"$">> \o s

\* lines 76-83, on the parsed data
InspectOffers(data) ==
    IF Contains(data, "offers") = "raise" THEN Raise
    ELSE IF Contains(data, "offers") = "no" THEN Nothing
    ELSE IF ~CanIndex(data, "offers") THEN Raise
    ELSE LET offers == data.m["offers"] IN
         IF offers.t = "obj" /\ Contains(offers, "price") = "yes"
         THEN Found(Dollar(Str(offers.m["price"])))
         ELSE IF offers.t = "arr" /\ Len(offers.a) > 0
         THEN (IF Contains(offers.a[1], "price") = "raise" THEN Raise
               ELSE IF Contains(offers.a[1], "price") = "no" THEN Nothing
               ELSE IF ~CanIndex(offers.a[1], "price") THEN Raise
               ELSE Found(Dollar(Str(offers.a[1].m["price"]))))
         ELSE Nothing

\* the body of the try of one loop iteration, lines 72-83
InspectBlock(script) ==
    IF script.t # "json" THEN Raise
    ELSE IF script.v.t = "arr"
    THEN (IF Len(script.v.a) = 0 THEN Raise ELSE InspectOffers(script.v.a[1]))
    ELSE InspectOffers(script.v)

-----------------------------------------------------------------------------
(* Pages: what the queries of the code find in the parsed tree. *)

\* an element: its tag name, its content attribute and its text
Tag(name, content, text) == [name |-> name, content |-> content, text |-> text]

Meta(content) == Tag("meta", content, <<>>)

Elem(name, text) == Tag(name, None, text)

Img(src) == [name |-> "img", src |-> src]

SeqsUpTo(S, n) == UNION {[1..k -> S] : k \in 0..n}

\* a page on which no query finds anything
DefaultTree ==
    [og_image |-> None, twitter_image |-> None, images |-> <<>>,
     og_title |-> None, title_tag |-> None, h1_tag |-> None,
     json_ld_scripts |-> <<>>, price_meta |-> None,
     price_selectors |-> <<None, None, None, None, None>>,
     og_desc |-> None, meta_desc |-> None, schema_desc |-> None]

NoMatchText == <<"<", "html", ">">>

\* a response body: whether the markup parser accepts it, the tree it
\* parses to, and the raw text the pattern scan reads
Doc(ok, tree, text) == [markup_ok |-> ok, tree |-> tree, text |-> text]

(* image inputs *)

RelImg == Url("", "", <<"img", "a.jpg">>, TRUE)
AbsImg == Url("https", "cdn.example", <<"a.jpg">>, TRUE)

ImageMetas == {None, Meta(None), Meta(Some(EmptyRef)), Meta(Some(RelImg)), Meta(Some(AbsImg))}

ImgSrcs ==
    { None, Some(EmptyRef), Some(RelImg),
      Some(Url("", "", <<"icon.png">>, FALSE)),
      Some(Url("", "", <<"..", "b.jpg">>, FALSE)),
      Some(Url("", "cdn.example", <<"c.jpg">>, TRUE)),
      Some(Url("", "[bad", <<"d.jpg">>, TRUE)) }

ImgLists == {[i \in DOMAIN q |-> Img(q[i])] : q \in SeqsUpTo(ImgSrcs, MaxImgs)}

ImageTrees ==
    { [DefaultTree EXCEPT !.og_image = a, !.twitter_image = b, !.images = c, !.h1_tag = t] :
        a \in ImageMetas, b \in ImageMetas,
        c \in {<<>>, <<Img(Some(RelImg))>>},
        t \in {None, Elem("h1", <<"H">>)} }
    \cup
    { [DefaultTree EXCEPT !.og_image = a, !.images = c] :
        a \in {None, Meta(Some(EmptyRef))}, c \in ImgLists }

(* title inputs *)

TitleMetas == {None, Meta(None), Meta(Some(<<>>)), Meta(Some(<<" ", "O", " ">>))}

TitleTexts == {<<>>, <<" ", "\n">>, <<" ", "T", "\n">>}

TitleTrees ==
    { [DefaultTree EXCEPT !.og_title = a, !.title_tag = b, !.h1_tag = c, !.og_image = i] :
        a \in TitleMetas,
        b \in {None} \cup {Elem("title", x) : x \in TitleTexts},
        c \in {None} \cup {Elem("h1", x) : x \in {<<>>, <<"H", " ">>}},
        i \in {None, Meta(Some(AbsImg))} }

(* price inputs *)

N125 == <<"1", "2", ".", "5">>
N999 == <<"9", ".", "9", "9">>

Scripts ==
    { NoString, Malformed,
      JsonText(JObj([offers |-> JObj([price |-> JNum(N125)])])),
      JsonText(JArr(<<JObj([offers |-> JArr(<<JObj([price |-> JStr(N999)])>>)])>>)),
      JsonText(JObj([name |-> JStr(<<"W">>)])),
      JsonText(JObj([offers |-> JObj([name |-> JStr(<<"W">>)])])),
      JsonText(JObj([offers |-> JObj([price |-> JNull])])),
      JsonText(JArr(<<>>)),
      JsonText(JNum(<<"5">>)),
      JsonText(JObj([offers |-> JArr(<<JStr(<<"p", "r", "i", "c", "e", "s">>)>>)])) }

PriceMetas == {None, Meta(None), Meta(Some(<<>>)), Meta(Some(<<"7", ".", "5", "0">>))}

RawTexts ==
    { NoMatchText,
      <<Q, "price", Q, ":", " ", "{", Q, "current", Q, ":", " ", "4", ".", "5", "}">>,
      <<Q, "price", Q, ":", "1", "2", ",", Q, "currentPrice", Q, ":", " ", "9", ".", "9", "9">>,
      <<Q, "price", Q, ":", " ", "1", "2">>,
      <<"sale_price", Q, ":", Q, "$", "3", ".", "2", "5", Q>>,
      <<Q, "price", Q, ":", " ", Q, "f", "r", "e", "e", Q>> }

T1999 == <<"1", "9", ".", "9", "9">>

\* texts of the elements the selector scan finds
PriceTexts ==
    { <<>>, <<"C", "a", "l", "l">>, <<" ">> \o T1999 \o <<"\n">>,
      <<"N", "o", "w", " ", "$", " ">> \o T1999, <<"EUR">> \o T1999 }

Spans == {Elem("span", x) : x \in {<<"C", "a", "l", "l">>, <<" ">> \o T1999 \o <<"\n">>}}

\* the five lookups of Method 4: the fifth is the first <span> whose class
\* matches, so it finds something only if the fourth (any tag) does, and is
\* the same element when the fourth found a <span>
SelectorLists ==
    { <<a, b, c, d, e>> :
        a \in {None} \cup {Elem("span", x) : x \in PriceTexts},
        b \in {None, Meta(None), Meta(Some(<<"$", "5">>))},
        c \in {None, Elem("span", <<"7">>)},
        d \in {None, Elem("div", <<>>), Elem("div", <<"EUR">> \o T1999)} \cup Spans,
        e \in {None} \cup Spans } 

ConsistentSelectors(l) ==
    /\ l[5] # None => l[4] # None
    /\ (l[4] # None /\ l[4].name = "span") => l[5] = l[4]

NoSelectors == <<None, None, None, None, None>>

OneSelector == <<None, None, None, Elem("div", <<"EUR">> \o T1999), None>>

PriceTree(j, m, l) ==
    [DefaultTree EXCEPT !.json_ld_scripts = j, !.price_meta = m, !.price_selectors = l,
                        !.title_tag = Elem("title", <<"T">>)]

\* the script blocks vary
ScriptDocs ==
    { Doc(TRUE, PriceTree(j, m, OneSelector), x) :
        j \in SeqsUpTo(Scripts, MaxScripts),
        m \in {None, Meta(Some(<<"7", ".", "5", "0">>))},
        x \in {NoMatchText, <<Q, "price", Q, ":", " ", "1", "2">>} }

\* the meta tag and the raw text vary
TextDocs ==
    { Doc(TRUE, PriceTree(j, m, l), x) :
        j \in {<<>>, <<Malformed>>}, m \in PriceMetas,
        l \in {NoSelectors, OneSelector}, x \in RawTexts }

\* the selector lookups vary
SelectorDocs ==
    { Doc(TRUE, PriceTree(<<>>, None, l), NoMatchText) :
        l \in {x \in SelectorLists : ConsistentSelectors(x)} }

(* description inputs *)

DescLengths == {0, 1} \cup ((DescLimit - 1)..(DescLimit + MaxOver))

DescMetas ==
    {None, Meta(None), Meta(Some(<<>>)), Meta(Some(<<" ", "d">>)),
     Meta(Some(Rep(DescLimit + MaxOver, "m")))}

PaddedLengths == {1, DescLimit, DescLimit + MaxOver}

DescTexts ==
    {Rep(n, "x") : n \in DescLengths}
    \cup {<<" ">> \o Rep(n, "x") \o <<"\n">> : n \in PaddedLengths}
    \cup {Rep(DescLimit - 1, "x") \o <<" ", "y">>}

DescTree(a, b, c) ==
    [DefaultTree EXCEPT !.og_desc = a, !.meta_desc = b, !.schema_desc = c,
                        !.title_tag = Elem("title", <<"T">>)]

DescTrees ==
    { DescTree(a, b, c) :
        a \in DescMetas, b \in DescMetas,
        c \in {None, Elem("div", <<" ">> \o Rep(DescLimit + MaxOver, "x"))} }
    \cup
    { DescTree(a, a, Elem("div", x)) : a \in {None, Meta(Some(<<>>))}, x \in DescTexts }

\* pages with a price and a description but, at best, a blank title
WeakTrees ==
    { [DefaultTree EXCEPT !.title_tag = t, !.price_meta = m, !.og_desc = d] :
        t \in {None, Elem("title", <<>>), Elem("title", <<" ">>)},
        m \in {None, Meta(Some(<<"7", ".", "5", "0">>))},
        d \in {None, Meta(Some(<<" ", "d">>))} }

ImageDocs == {Doc(TRUE, t, NoMatchText) : t \in ImageTrees}

Docs ==
    ImageDocs
    \cup {Doc(TRUE, t, NoMatchText) : t \in TitleTrees \cup DescTrees \cup WeakTrees}
    \cup ScriptDocs \cup TextDocs \cup SelectorDocs
    \cup {Doc(FALSE, DefaultTree, NoMatchText)}

(* request inputs *)

ShopUrl == Url("https", "shop.example", <<"p", "1">>, TRUE)

RootUrl == Url("http", "shop.example", <<>>, FALSE)

\* the pages served at a URL
DocsAt(u) == IF u = ShopUrl THEN Docs ELSE ImageDocs

\* the url query parameter: missing, empty, two pages, and a string with
\* no scheme
UrlParams ==
    { None, Some(EmptyRef), Some(ShopUrl),
      Some(RootUrl),
      Some(Url("", "", <<"notaurl">>, FALSE)) }

-----------------------------------------------------------------------------
(* The resolvers of extract_product_info. *)

Ok(v)  == [out |-> "ok", value |-> v]

\* lines 35-51
ResolveImage(tree, base) ==
    IF tree.og_image # None /\ UrlTruthy(tree.og_image.content)
    THEN Ok(tree.og_image.content)
    ELSE IF tree.twitter_image # None /\ UrlTruthy(tree.twitter_image.content)
    THEN Ok(tree.twitter_image.content)
    ELSE LET large_images ==
                 SelectSeq(tree.images,
                           LAMBDA img : UrlTruthy(img.src) /\ ~IsSmallImage(img.src.val))
         IN  IF large_images = <<>> THEN Ok(None)
             ELSE LET img_src == large_images[1].src.val IN
                  IF BadNetloc(img_src.netloc) THEN Raise
                  ELSE Ok(Some(urljoin(base, img_src)))

\* variant: the title is looked for only when an og:image was found
ResolveTitleAfterImage(tree) ==
    IF ~(tree.og_image # None /\ UrlTruthy(tree.og_image.content)) THEN None
    ELSE IF tree.og_title # None /\ Truthy(tree.og_title.content)
    THEN tree.og_title.content
    ELSE IF tree.title_tag # None
    THEN Some(Strip(tree.title_tag.text))
    ELSE IF tree.h1_tag # None
    THEN Some(Strip(tree.h1_tag.text))
    ELSE None

\* lines 54-64
ResolveTitle(tree) ==
    IF tree.og_title # None /\ Truthy(tree.og_title.content)
    THEN tree.og_title.content
    ELSE IF tree.title_tag # None
    THEN Some(Strip(tree.title_tag.text))
    ELSE IF tree.h1_tag # None
    THEN Some(Strip(tree.h1_tag.text))
    ELSE None

\* lines 89-91
PriceFromMeta(tree) ==
    IF tree.price_meta # None /\ Truthy(tree.price_meta.content)
    THEN Some(Dollar(tree.price_meta.content.val))
    ELSE None

\* lines 102-106: the first pattern, in list order, that matches
PriceFromText(text) ==
    LET hits == {i \in 1..Len(price_patterns) : re_search(price_patterns[i], text) # None}
    IN  IF hits = {} THEN None
        ELSE LET i == CHOOSE j \in hits : \A k \in hits : j <= k
             IN  Some(Dollar(re_search(price_patterns[i], text).val.group1))

\* line 120
PriceText(price_elem) ==
    IF price_elem.name = "meta" THEN price_elem.content ELSE Some(price_elem.text)

\* variant: the capture group is used instead of the whole match
SelectorPriceGroup1(price_elem) ==
    LET price_text == PriceText(price_elem) IN
    IF ~Truthy(price_text) THEN None
    ELSE LET price_match == re_search(selector_pattern, price_text.val) IN
         IF price_match = None THEN None
         ELSE Some(Strip(price_match.val.group1))

\* lines 121-124, for a found element: the price it gives, or None
SelectorPrice(price_elem) ==
    LET price_text == PriceText(price_elem) IN
    IF ~Truthy(price_text) THEN None
    ELSE LET price_match == re_search(selector_pattern, price_text.val) IN
         IF price_match = None THEN None
         ELSE Some(Strip(price_match.val.group0))

\* variant: the meta contents are cut like the microdata text
ResolveDescriptionCutAll(tree) ==
    IF tree.og_desc # None /\ Truthy(tree.og_desc.content)
    THEN Some(Prefix(tree.og_desc.content.val, DescLimit))
    ELSE IF tree.meta_desc # None /\ Truthy(tree.meta_desc.content)
    THEN Some(Prefix(tree.meta_desc.content.val, DescLimit))
    ELSE IF tree.schema_desc # None
    THEN Some(Prefix(Strip(tree.schema_desc.text), DescLimit))
    ELSE None

\* lines 128-138
ResolveDescription(tree) ==
    IF tree.og_desc # None /\ Truthy(tree.og_desc.content)
    THEN tree.og_desc.content
    ELSE IF tree.meta_desc # None /\ Truthy(tree.meta_desc.content)
    THEN tree.meta_desc.content
    ELSE IF tree.schema_desc # None
    THEN Some(Prefix(Strip(tree.schema_desc.text), DescLimit))
    ELSE None

\* what requests.get and raise_for_status raise
FetchErrors == {"ConnectionError", "Timeout", "HTTPError", "MissingSchema"}

\* variant: the handler catches the errors of the fetch only
CatchesRequestErrors(e) == e \in FetchErrors

\* except Exception: every exception the try can raise is an Exception
Catches(e) == TRUE

-----------------------------------------------------------------------------
(* The route and the engine, step by step. *)

\* nothing returned yet
Pending == [pending |-> TRUE]

\* an exception that left extract_product_info
Escaped(e) == [escaped |-> e]

Json(status, success, data) == [status |-> status, success |-> success, data |-> data]

NullData(u) ==
    [title |-> None, price |-> None, image |-> None, description |-> None, url |-> u]

\* variant: the route asks for an image and a title
ExtractResponseBoth(u, info) ==
    IF info # None /\ (UrlTruthy(info.image) /\ Truthy(info.title))
    THEN Json(200, TRUE,
              [title |-> info.title, price |-> info.price, image |-> info.image,
               description |-> info.description, url |-> info.url])
    ELSE Json(404, FALSE, NullData(u))

\* lines 170-193: the response for what the engine returned
ExtractResponse(u, info) ==
    IF info # None /\ (UrlTruthy(info.image) \/ Truthy(info.title))
    THEN Json(200, TRUE,
              [title |-> info.title, price |-> info.price, image |-> info.image,
               description |-> info.description, url |-> info.url])
    ELSE Json(404, FALSE, NullData(u))

\* line 160: not url
MissingUrl(u) == ~UrlTruthy(u)

\* requests.get raises MissingSchema / InvalidURL unless the URL is http(s)
\* with a host
Fetchable(u) == u.val.scheme \in {"http", "https"} /\ u.val.netloc # ""

Init ==
    /\ pc = "idle"
    /\ url = None
    /\ response = None
    /\ soup = None
    /\ html_text = None
    /\ product_info = None
    /\ exc = ""
    /\ ret = Pending
    /\ http_response = Pending
    /\ calls = 0
    /\ ran = {}
    /\ blockIdx = 1
    /\ blocksSeen = <<>>
    /\ methodsTried = <<>>
    /\ selIdx = 1
    /\ selSeen = <<>>

\* lines 158-168: the route reads the parameter and calls the engine
ApiExtract(u) ==
    /\ pc = "idle"
    /\ url' = u
    /\ IF MissingUrl(u)
       THEN /\ http_response' = Json(400, FALSE, None)
            /\ pc' = "done"
            /\ calls' = calls
       ELSE /\ http_response' = http_response
            /\ pc' = "fetch"
            /\ calls' = calls + 1
    /\ UNCHANGED <<response, soup, html_text, product_info, exc, ret, ran,
                   blockIdx, blocksSeen, methodsTried, selIdx, selSeen>>

\* lines 20-21: the request fails, times out, or raise_for_status raises
FetchFails(e) ==
    /\ pc = "fetch"
    /\ e = "MissingSchema" <=> ~Fetchable(url)
    /\ exc' = e
    /\ pc' = "except"
    /\ UNCHANGED <<url, response, soup, html_text, product_info, ret, http_response,
                   calls, ran, blockIdx, blocksSeen, methodsTried, selIdx, selSeen>>

\* lines 20-21: a 2xx response arrives
FetchOk(doc) ==
    /\ pc = "fetch"
    /\ Fetchable(url)
    /\ doc \in DocsAt(url.val)
    /\ response' = doc
    /\ pc' = "parse"
    /\ UNCHANGED <<url, soup, html_text, product_info, exc, ret, http_response,
                   calls, ran, blockIdx, blocksSeen, methodsTried, selIdx, selSeen>>

\* lines 23-32: parse the body, start the record
Parse ==
    /\ pc = "parse"
    /\ IF response.markup_ok
       THEN /\ soup' = response.tree
            /\ html_text' = response.text
            /\ product_info' = [image |-> None, title |-> None, price |-> None,
                                description |-> None, url |-> url]
            /\ pc' = "image"
            /\ exc' = exc
       ELSE /\ exc' = "ParserRejectedMarkup"
            /\ pc' = "except"
            /\ UNCHANGED <<soup, html_text, product_info>>
    /\ UNCHANGED <<url, response, ret, http_response, calls, ran,
                   blockIdx, blocksSeen, methodsTried, selIdx, selSeen>>

\* lines 35-51
ExtractImage ==
    /\ pc = "image"
    /\ ran' = ran \cup {"image"}
    /\ LET r == ResolveImage(soup, url.val) IN
       IF r.out = "raise"
       THEN /\ exc' = "ValueError"
            /\ pc' = "except"
            /\ product_info' = product_info
       ELSE /\ product_info' = [product_info EXCEPT !.image = r.value]
            /\ pc' = "title"
            /\ exc' = exc
    /\ UNCHANGED <<url, response, soup, html_text, ret, http_response, calls,
                   blockIdx, blocksSeen, methodsTried, selIdx, selSeen>>

\* lines 54-64
ExtractTitle ==
    /\ pc = "title"
    /\ ran' = ran \cup {"title"}
    /\ product_info' = [product_info EXCEPT !.title = ResolveTitle(soup)]
    /\ pc' = "price1"
    /\ UNCHANGED <<url, response, soup, html_text, exc, ret, http_response, calls,
                   blockIdx, blocksSeen, methodsTried, selIdx, selSeen>>

\* variant: no try around the block, an exception leaves the loop
BlockOutcomeUncaught(script) == InspectBlock(script)

\* lines 71-85: one iteration; an exception raised in the try is caught by
\* the bare except and the loop continues
BlockOutcome(script) ==
    LET r == InspectBlock(script) IN IF r.out = "raise" THEN Nothing ELSE r

\* variant: the later methods run whatever the earlier ones set
AlwaysNeedsPrice(info) == TRUE

\* lines 88, 94, 109: if not product_info['price']
NeedsPrice(info) == ~Truthy(info.price)

\* line 69: Method 1 starts
FindScripts ==
    /\ pc = "price1"
    /\ ran' = ran \cup {"price"}
    /\ methodsTried' = Append(methodsTried, 1)
    /\ blockIdx' = 1
    /\ pc' = IF soup.json_ld_scripts = <<>> THEN "price2" ELSE "jsonld"
    /\ UNCHANGED <<url, response, soup, html_text, product_info, exc, ret, http_response,
                   calls, blocksSeen, selIdx, selSeen>>

\* lines 70-85: one iteration of the loop over the JSON-LD blocks
JsonLdBlock ==
    /\ pc = "jsonld"
    /\ blockIdx <= Len(soup.json_ld_scripts)
    /\ blocksSeen' = Append(blocksSeen, blockIdx)
    /\ LET r == BlockOutcome(soup.json_ld_scripts[blockIdx]) IN
       IF r.out = "price"
       THEN /\ product_info' = [product_info EXCEPT !.price = Some(r.price)]
            /\ pc' = "price2"
            /\ UNCHANGED <<blockIdx, exc>>
       ELSE IF r.out = "raise"
       THEN /\ exc' = "BlockError"
            /\ pc' = "except"
            /\ UNCHANGED <<blockIdx, product_info>>
       ELSE /\ blockIdx' = blockIdx + 1
            /\ pc' = IF blockIdx = Len(soup.json_ld_scripts) THEN "price2" ELSE "jsonld"
            /\ UNCHANGED <<product_info, exc>>
    /\ UNCHANGED <<url, response, soup, html_text, ret, http_response, calls, ran,
                   methodsTried, selIdx, selSeen>>

\* lines 88-91: Method 2
PriceMetaTag ==
    /\ pc = "price2"
    /\ IF NeedsPrice(product_info)
       THEN /\ methodsTried' = Append(methodsTried, 2)
            /\ product_info' = [product_info EXCEPT !.price =
                                    IF PriceFromMeta(soup) # None THEN PriceFromMeta(soup) ELSE @]
       ELSE UNCHANGED <<methodsTried, product_info>>
    /\ pc' = "price3"
    /\ UNCHANGED <<url, response, soup, html_text, exc, ret, http_response, calls, ran,
                   blockIdx, blocksSeen, selIdx, selSeen>>

\* lines 94-106: Method 3
PriceRawText ==
    /\ pc = "price3"
    /\ IF NeedsPrice(product_info)
       THEN /\ methodsTried' = Append(methodsTried, 3)
            /\ product_info' = [product_info EXCEPT !.price =
                                    IF PriceFromText(html_text) # None
                                    THEN PriceFromText(html_text) ELSE @]
       ELSE UNCHANGED <<methodsTried, product_info>>
    /\ pc' = "price4"
    /\ UNCHANGED <<url, response, soup, html_text, exc, ret, http_response, calls, ran,
                   blockIdx, blocksSeen, selIdx, selSeen>>

\* lines 109-116: Method 4 starts
FindSelectors ==
    /\ pc = "price4"
    /\ IF NeedsPrice(product_info)
       THEN /\ methodsTried' = Append(methodsTried, 4)
            /\ selIdx' = 1
            /\ pc' = "selectors"
       ELSE /\ pc' = "desc"
            /\ UNCHANGED <<methodsTried, selIdx>>
    /\ UNCHANGED <<url, response, soup, html_text, product_info, exc, ret, http_response,
                   calls, ran, blockIdx, blocksSeen, selSeen>>

\* lines 118-125: one iteration of the loop over the five lookups
SelectorStep ==
    /\ pc = "selectors"
    /\ selIdx <= Len(soup.price_selectors)
    /\ LET price_elem == soup.price_selectors[selIdx]
           found == price_elem # None /\ SelectorPrice(price_elem) # None
       IN  /\ selSeen' = IF price_elem # None THEN Append(selSeen, selIdx) ELSE selSeen
           /\ IF found
              THEN /\ product_info' = [product_info EXCEPT !.price = SelectorPrice(price_elem)]
                   /\ pc' = "desc"
                   /\ selIdx' = selIdx
              ELSE /\ selIdx' = selIdx + 1
                   /\ pc' = IF selIdx = Len(soup.price_selectors) THEN "desc" ELSE "selectors"
                   /\ product_info' = product_info
    /\ UNCHANGED <<url, response, soup, html_text, exc, ret, http_response, calls, ran,
                   blockIdx, blocksSeen, methodsTried>>

\* lines 128-140: the description, then return product_info
ExtractDescription ==
    /\ pc = "desc"
    /\ ran' = ran \cup {"description"}
    /\ product_info' = [product_info EXCEPT !.description = ResolveDescription(soup)]
    /\ ret' = product_info'
    /\ pc' = "respond"
    /\ UNCHANGED <<url, response, soup, html_text, exc, http_response, calls,
                   blockIdx, blocksSeen, methodsTried, selIdx, selSeen>>

\* lines 142-143: except Exception: return None
Except ==
    /\ pc = "except"
    /\ IF Catches(exc)
       THEN /\ ret' = None
            /\ pc' = "respond"
            /\ http_response' = http_response
       ELSE /\ ret' = Escaped(exc)
            /\ pc' = "done"
            /\ http_response' = Json(500, FALSE, None)
    /\ UNCHANGED <<url, response, soup, html_text, product_info, exc, calls, ran,
                   blockIdx, blocksSeen, methodsTried, selIdx, selSeen>>

\* lines 170-193: the route answers
Respond ==
    /\ pc = "respond"
    /\ http_response' = ExtractResponse(url, ret)
    /\ pc' = "done"
    /\ UNCHANGED <<url, response, soup, html_text, product_info, exc, ret, calls, ran,
                   blockIdx, blocksSeen, methodsTried, selIdx, selSeen>>

Next ==
    \/ \E u \in UrlParams : ApiExtract(u)
    \/ \E e \in FetchErrors : FetchFails(e)
    \/ \E doc \in Docs : FetchOk(doc)
    \/ Parse
    \/ ExtractImage
    \/ ExtractTitle
    \/ FindScripts
    \/ JsonLdBlock
    \/ PriceMetaTag
    \/ PriceRawText
    \/ FindSelectors
    \/ SelectorStep
    \/ ExtractDescription
    \/ Except
    \/ Respond

Spec == Init /\ [][Next]_vars

-----------------------------------------------------------------------------
(* Properties. *)

\* the engine returned a record
ReturnedRecord == ret # Pending /\ ret # None /\ "title" \in DOMAIN ret

\* the route has answered
Answered == pc = "done" /\ http_response # Pending

\* C1 as stated.  A request without the url parameter gets 400 and the
\* engine is not called; every other request gets 200 with the extracted
\* record exactly when the engine returned a record with a title or an image,
\* and otherwise 404 with all-null data and the requested url.
C1_AsStated ==
    Answered =>
        IF url = None
        THEN http_response.status = 400 /\ calls = 0
        ELSE IF ReturnedRecord /\ (UrlTruthy(ret.image) \/ Truthy(ret.title))
        THEN http_response.status = 200 /\ http_response.data = ret
        ELSE http_response.status = 404 /\ http_response.data = NullData(url)

\* C1, amended.  A request whose url parameter is missing or empty gets 400
\* and the engine is not called; every other request gets 200 with the
\* extracted record exactly when the engine returned a record with a
\* non-empty title or image, and otherwise 404 with all-null data and the
\* requested url.
C1_ExtractStatus ==
    Answered =>
        IF url = None \/ url = Some(EmptyRef)
        THEN http_response.status = 400 /\ calls = 0 /\ ret = Pending
        ELSE /\ calls = 1
             /\ IF ReturnedRecord /\ (UrlTruthy(ret.image) \/ Truthy(ret.title))
                THEN /\ http_response.status = 200
                     /\ http_response.success
                     /\ http_response.data = ret
                ELSE /\ http_response.status = 404
                     /\ ~http_response.success
                     /\ http_response.data = NullData(url)

\* C1 witness: a weak extraction (a record without title and image) was
\* answered with 404
C1_Witness ==
    /\ Answered
    /\ ReturnedRecord
    /\ ret.title = None /\ ret.image = None
    /\ ret.price # None /\ ret.description # None
    /\ http_response.status = 404
    /\ http_response.data = NullData(url)

\* C2.  When the fetch fails, or an exception is raised while parsing or
\* resolving, the call returns None, never a record, no exception leaves
\* the function, and after a failed fetch no resolver has run.
C2_FailureSignal ==
    /\ (exc # "" /\ pc \in {"respond", "done"}) => ret = None
    /\ (exc # "" /\ ret # Pending) => ret = None
    /\ exc \in FetchErrors => (ran = {} /\ product_info = None)
    /\ pc = "except" => exc # ""

\* C2 witness: a resolver raised after the record was started, and the call
\* returned None
C2_Witness ==
    /\ exc = "ValueError"
    /\ product_info # None
    /\ "image" \in ran
    /\ ret = None
    /\ pc = "done"

\* the title resolver has run and the call has not failed
TitleResolved == product_info # None /\ "title" \in ran /\ exc = ""

NonEmptyText(tag) == tag # None /\ Strip(tag.text) # <<>>

\* C3 as stated.  The title is the og:title content if non-empty, else the
\* trimmed title text if non-empty, else the trimmed text of the first h1;
\* an empty source never stops a lower-priority one from being used.
C3_TitleOrder ==
    TitleResolved =>
        LET og == soup.og_title # None /\ Truthy(soup.og_title.content) IN
        /\ og => product_info.title = soup.og_title.content
        /\ (~og /\ NonEmptyText(soup.title_tag))
               => product_info.title = Some(Strip(soup.title_tag.text))
        /\ (~og /\ ~NonEmptyText(soup.title_tag) /\ NonEmptyText(soup.h1_tag))
               => product_info.title = Some(Strip(soup.h1_tag.text))
        /\ product_info.title = None
               => (~og /\ ~NonEmptyText(soup.title_tag) /\ ~NonEmptyText(soup.h1_tag))

\* the record exists and nothing was raised
Resolving == product_info # None /\ exc = ""

\* how many price methods are over at the current position
MethodsOver ==
    IF pc = "price2" THEN 1
    ELSE IF pc = "price3" THEN 2
    ELSE IF pc = "price4" THEN 3
    ELSE IF pc \in {"desc", "respond", "done"} THEN 4
    ELSE 0

\* the smallest element of a non-empty set of numbers
Min(S) == CHOOSE i \in S : \A j \in S : i <= j

\* the JSON-LD blocks that yield an offers price
YieldingBlocks == {i \in 1..Len(soup.json_ld_scripts) :
                       InspectBlock(soup.json_ld_scripts[i]).out = "price"}

\* the found selector elements whose content or text matches the price pattern
MatchingSelectors ==
    {i \in 1..Len(soup.price_selectors) :
        /\ soup.price_selectors[i] # None
        /\ Truthy(PriceText(soup.price_selectors[i]))
        /\ re_search(selector_pattern, PriceText(soup.price_selectors[i]).val) # None}

\* what price method k yields on the fetched page, None if nothing
MethodYield(k) ==
    IF k = 1
    THEN IF YieldingBlocks = {} THEN None
         ELSE Some(InspectBlock(soup.json_ld_scripts[Min(YieldingBlocks)]).price)
    ELSE IF k = 2 THEN PriceFromMeta(soup)
    ELSE IF k = 3 THEN PriceFromText(html_text)
    ELSE IF MatchingSelectors = {} THEN None
         ELSE Some(Strip(re_search(selector_pattern,
                   PriceText(soup.price_selectors[Min(MatchingSelectors)]).val).val.group0))

\* the methods among 1..k that yield a value
Yielding(k) == {j \in 1..k : MethodYield(j) # None}

\* C4.  The four price methods run in order 1, 2, 3, 4; a method is
\* attempted only if every earlier one yielded nothing; the price is the
\* value of the lowest-numbered method that yields one, is never replaced by
\* a later method, and is absent only if all four yield nothing.
C4_MethodOrder ==
    (Resolving /\ MethodsOver > 0) =>
        /\ product_info.price =
               IF Yielding(MethodsOver) = {} THEN None
               ELSE MethodYield(Min(Yielding(MethodsOver)))
        /\ \A i \in 1..Len(methodsTried) : \A j \in 1..Len(methodsTried) :
               i < j => methodsTried[i] < methodsTried[j]
        /\ \A k \in 1..MethodsOver :
               (\E i \in 1..Len(methodsTried) : methodsTried[i] = k) <=> Yielding(k - 1) = {}
        /\ (MethodsOver = 4 /\ product_info.price = None) => Yielding(4) = {}

\* C4 witness: Methods 1 and 2 yielded nothing, Method 3 set the price and
\* Method 4 was not attempted
C4_Witness ==
    /\ pc = "done"
    /\ ReturnedRecord
    /\ soup.json_ld_scripts # <<>>
    /\ soup.price_meta # None
    /\ methodsTried = <<1, 2, 3>>
    /\ ret.price = Some(<<"$", "9", ".", "9", "9">>)
    /\ MatchingSelectors # {}

\* the offers price of a block that has one: of the parsed value, or of its
\* first element if it is a sequence, the price of offers, or of the first
\* element of offers if that is a sequence
OffersPrice(script) ==
    LET data   == IF script.v.t = "arr" THEN script.v.a[1] ELSE script.v
        offers == data.m["offers"]
    IN  IF offers.t = "arr" THEN offers.a[1].m["price"] ELSE offers.m["price"]

\* C5.  Method 1 evaluates the JSON-LD blocks in document order; a block
\* that does not parse, has no usable offers price or raises is skipped and
\* the next one is evaluated; the price is "$" and the offers price of the
\* first block that yields one, no block after it is evaluated, and a bad
\* block never aborts the extraction.
C5_JsonLdBlocks ==
    /\ exc # "BlockError"
    /\ (Resolving /\ pc = "jsonld") =>
           /\ blocksSeen = [i \in 1..(blockIdx - 1) |-> i]
           /\ \A i \in 1..(blockIdx - 1) : i \notin YieldingBlocks
           /\ product_info.price = None
    /\ (Resolving /\ MethodsOver > 0) =>
           LET n == Len(soup.json_ld_scripts)
               last == IF YieldingBlocks = {} THEN n ELSE Min(YieldingBlocks)
           IN  /\ blocksSeen = [i \in 1..last |-> i]
               /\ YieldingBlocks # {} =>
                      product_info.price =
                          Some(<<"$">> \o Str(OffersPrice(soup.json_ld_scripts[last])))
               /\ (MethodsOver = 1 /\ YieldingBlocks = {}) => product_info.price = None
    /\ (pc = "done" /\ product_info # None /\ "price" \in ran) => ReturnedRecord

\* C5 witness: the first block did not parse, the second one gave $12.5
C5_Witness ==
    /\ pc = "done"
    /\ ReturnedRecord
    /\ Len(soup.json_ld_scripts) = 2
    /\ soup.json_ld_scripts[1] = Malformed
    /\ soup.json_ld_scripts[2] = JsonText(JObj([offers |-> JObj([price |-> JNum(N125)])]))
    /\ blocksSeen = <<1, 2>>
    /\ ret.price = Some(<<"$", "1", "2", ".", "5">>)

\* C6 as stated.  A returned record whose image is present carries an
\* absolute URL, whichever of the three image sources supplied it.
C6_AbsoluteImage ==
    (ReturnedRecord /\ ret.image # None) => IsAbsolute(ret.image.val)

\* C7 as stated.  A returned record whose price is present carries a price
\* that begins with a currency symbol, whichever method produced it.
C7_CurrencyPrefix ==
    (ReturnedRecord /\ ret.price # None) =>
        (ret.price.val # <<>> /\ Head(ret.price.val) \in CurrencySymbol)

\* C8.  The description is the og:description content if non-empty, else
\* the description meta content if non-empty, both verbatim at any length;
\* only otherwise is it the trimmed text of the first itemprop="description"
\* element cut to its first 500 characters, so at most 500 characters long.
C8_Description ==
    ReturnedRecord =>
        LET og   == soup.og_desc # None /\ Truthy(soup.og_desc.content)
            meta == soup.meta_desc # None /\ Truthy(soup.meta_desc.content)
        IN  IF og THEN ret.description = soup.og_desc.content
            ELSE IF meta THEN ret.description = soup.meta_desc.content
            ELSE IF soup.schema_desc # None
            THEN LET trimmed == Strip(soup.schema_desc.text)
                     d == ret.description.val
                 IN  /\ Len(d) <= 500
                     /\ Len(d) = IF Len(trimmed) < 500 THEN Len(trimmed) ELSE 500
                     /\ \A i \in 1..Len(d) : d[i] = trimmed[i]
            ELSE ret.description = None

\* C8 witness: a microdata description longer than the limit was cut to
\* exactly 500 characters, and a longer meta description exists elsewhere
C8_Witness ==
    /\ pc = "done"
    /\ ReturnedRecord
    /\ soup.og_desc = None
    /\ soup.schema_desc # None
    /\ Len(Strip(soup.schema_desc.text)) > 500
    /\ Len(ret.description.val) = 500

\* the image resolver raises: no usable og:image or twitter:image, and the
\* first qualifying <img> has a src that urljoin rejects
ImageRaises ==
    /\ ~(soup.og_image # None /\ UrlTruthy(soup.og_image.content))
    /\ ~(soup.twitter_image # None /\ UrlTruthy(soup.twitter_image.content))
    /\ \E i \in 1..Len(soup.images) :
           /\ UrlTruthy(soup.images[i].src)
           /\ ~IsSmallImage(soup.images[i].src.val)
           /\ BadNetloc(soup.images[i].src.val.netloc)
           /\ \A j \in 1..(i - 1) :
                  ~UrlTruthy(soup.images[j].src) \/ IsSmallImage(soup.images[j].src.val)

\* C9 as stated.  Over a fetched and parsed page, a failure, an error raised
\* included, while resolving one field never prevents the other fields from
\* being resolved and returned in the record.
C9_AsStated ==
    (pc = "done" /\ product_info # None) =>
        (ReturnedRecord /\ ran = {"image", "title", "price", "description"})

\* C9, amended.  Over a fetched and parsed page, a field that resolves to
\* absent never prevents the other fields from being resolved and returned:
\* all four resolvers run and the record carries what each of them found.
\* Only an error raised while resolving a field (urljoin rejecting the image
\* src) ends the call, which then returns the failure signal and no record.
C9_FieldIndependence ==
    (pc = "done" /\ product_info # None) =>
        IF ImageRaises
        THEN ret = None /\ exc = "ValueError"
        ELSE /\ ReturnedRecord
             /\ exc = ""
             /\ ran = {"image", "title", "price", "description"}
             /\ ret = product_info
             /\ (ret.title = None) <=>
                    /\ ~(soup.og_title # None /\ Truthy(soup.og_title.content))
                    /\ soup.title_tag = None
                    /\ soup.h1_tag = None
             /\ (ret.price = None) <=> Yielding(4) = {}
             /\ (ret.description = None) <=>
                    /\ ~(soup.og_desc # None /\ Truthy(soup.og_desc.content))
                    /\ ~(soup.meta_desc # None /\ Truthy(soup.meta_desc.content))
                    /\ soup.schema_desc = None

\* C9 witness: image and price were not found, title and description were
C9_Witness ==
    /\ pc = "done"
    /\ ReturnedRecord
    /\ ret.image = None
    /\ ret.price = None
    /\ ret.title # None
    /\ ret.description # None

\* the found selector elements, in list order
FoundSelectors == {i \in 1..Len(soup.price_selectors) : soup.price_selectors[i] # None}

\* Method 4 ran to its end
SelectorsOver == Resolving /\ MethodsOver = 4 /\ methodsTried = <<1, 2, 3, 4>>

\* C10 as stated.  In Method 4 only the first candidate that found an
\* element is used: the price is the whole trimmed match of the pattern on
\* its content or text, absent if the pattern does not match, and no later
\* candidate is consulted.
C10_AsStated ==
    SelectorsOver =>
        IF FoundSelectors = {} THEN selSeen = <<>> /\ product_info.price = None
        ELSE /\ selSeen = <<Min(FoundSelectors)>>
             /\ product_info.price = SelectorPrice(soup.price_selectors[Min(FoundSelectors)])

\* C10, amended.  In Method 4 the found candidates are consulted in their
\* listed order until one of them has a content attribute (for a <meta>) or
\* text that matches the price pattern; the price is the whole trimmed match
\* on that element, no candidate after it is consulted, and the price is
\* absent only if no found candidate matches.
C10_SelectorScan ==
    SelectorsOver =>
        LET last == IF MatchingSelectors = {} THEN Len(soup.price_selectors)
                    ELSE Min(MatchingSelectors)
            seen == {i \in FoundSelectors : i <= last}
        IN  /\ Len(selSeen) = Cardinality(seen)
            /\ \A i \in 1..Len(selSeen) : selSeen[i] \in seen
            /\ \A i \in 1..Len(selSeen) : \A j \in 1..Len(selSeen) :
                   i < j => selSeen[i] < selSeen[j]
            /\ product_info.price =
                   IF MatchingSelectors = {} THEN None
                   ELSE Some(Strip(re_search(selector_pattern,
                             PriceText(soup.price_selectors[last]).val).val.group0))

\* C10 witness: the first found element did not match, a later one gave
\* the price with its currency symbol
C10_Witness ==
    /\ pc = "done"
    /\ ReturnedRecord
    /\ Len(selSeen) >= 2
    /\ ret.price # None
    /\ Head(ret.price.val) \in CurrencySymbol
    /\ Len(ret.price.val) > 1

====
